---- MODULE Spec2Model ----
(***************************************************************************)
(* Model of utils3d's depth-based image warp (warp_image_by_depth and      *)
(* rasterize_vertex_attr in utils3d/torch_/rasterization.py) and of the    *)
(* wavefront .obj reader (read_obj in wavefront_obj.py).                   *)
(*                                                                         *)
(* Numbers are fixed point.  Raw clip-space z is counted in 1/ZScale, the  *)
(* remapped screen depth in 1/(2*ZScale), attribute values in 1/MaskOne,   *)
(* linear depth and the clip planes in tenths.  uv coordinates are exact   *)
(* rationals <<numerator, denominator>>.                                   *)
(***************************************************************************)
EXTENDS Integers, Sequences, FiniteSets, TLC

VARIABLES
    pc,         \* position of the warp call
    args,       \* the call's arguments as given by the caller
    err,        \* which check or tensor operation raised ("" while none has)
    calls,      \* collaborator functions called so far, in order
    size,       \* resolved output width / height
    cam,        \* resolved camera parameters, target view and perspective
    lat,        \* lattice: uv, the uv used for unprojection, faces, local depth and image
    pts,        \* unprojected vertices, per batch element
    tri,        \* arguments of the mesh.triangulate call
    attr,       \* per-vertex attribute layout and diff_attrs
    rast,       \* what rasterize_vertex_attr returned
    out,        \* what warp_image_by_depth returned
    obj_pc,     \* position of the read_obj call
    obj_in,     \* read_obj's arguments: the lines and ignore_unknown
    obj_i,      \* number of lines consumed by the loop
    obj         \* read_obj's nine accumulators

warpVars == <<pc, args, err, calls, size, cam, lat, pts, tri, attr, rast, out>>
objVars == <<obj_pc, obj_in, obj_i, obj>>
vars == <<pc, args, err, calls, size, cam, lat, pts, tri, attr, rast, out,
          obj_pc, obj_in, obj_i, obj>>

----------------------------------------------------------------------------
(* Bounds of the model *)

MaxBatch == 2       \* batch sizes 1..MaxBatch
MaxDim == 2         \* depth height and width, requested width and height: 1..MaxDim
MaxC == 2           \* image channels 1..MaxC
MaxPad == 1         \* padding 0..MaxPad
ZScale == 2         \* raw clip z takes the values -ZScale..ZScale, in 1/ZScale
MaxLines == 3       \* lines of an .obj file

(* Program constants *)

Near == 1           \* near = 0.1, in tenths
Far == 1000         \* far = 100.0, in tenths
MaskOne == 100000   \* 1.0 of mask.float(), in units of 0.00001
MaskThreshold == 99990  \* 0.9999 in the same unit

Unset == [set |-> FALSE]

Clamp(x, lo, hi) == IF x < lo THEN lo ELSE IF x > hi THEN hi ELSE x

\* exact rationals <<n, d>>, d > 0
RSub(a, b) == <<a[1] * b[2] - b[1] * a[2], a[2] * b[2]>>
RAdd(a, b) == <<a[1] * b[2] + b[1] * a[2], a[2] * b[2]>>
RMul(a, b) == <<a[1] * b[1], a[2] * b[2]>>

\* row and column (1-based) of row-major index i (1-based) in a grid w wide
RowOf(i, w) == ((i - 1) \div w) + 1
ColOf(i, w) == ((i - 1) % w) + 1

----------------------------------------------------------------------------
(* The caller's tensors.  The code only moves depth values around, so one  *)
(* depth field with pairwise distinct values (all below far) stands for    *)
(* every depth map; masks are drawn from patterns.                         *)

SourceDepth(a, b, r, c) == ((b - 1) * a.H + (r - 1)) * a.W + c

MaskPatterns == {"all", "even", "odd"}

\* mask[b, r, c] of the caller's (B, H, W) mask
SourceMask(a, b, r, c) ==
    CASE a.mask_pattern = "all" -> TRUE
      [] a.mask_pattern = "even" -> (b + r + c) % 2 = 0
      [] OTHER -> (b + r + c) % 2 = 1

\* the channel labels an attribute value carries through the pipeline
ImageCh(k) == [kind |-> "image", k |-> k]
UCh == [kind |-> "uv", k |-> 1]
VCh == [kind |-> "uv", k |-> 2]
MaskCh == [kind |-> "mask", k |-> 1]

----------------------------------------------------------------------------
(* utils.image_mesh: uv of the pixel centres, row-major, spacing 1/width   *)
(* and 1/height; the faces are the quads of the grid.                      *)

image_mesh(width, height) ==
    [n |-> width * height,
     width |-> width,
     height |-> height,
     uv |-> [i \in 1..(width * height) |->
                <<<<2 * ColOf(i, width) - 1, 2 * width>>,
                  <<2 * RowOf(i, width) - 1, 2 * height>>>>],
     faces |-> [quads |-> (width - 1) * (height - 1), width |-> width, height |-> height]]

\* torch.nn.functional.pad(t, [1, 1, 1, 1], mode='replicate') on the last two axes
PadReplicate(t) ==
    [H |-> t.H + 2, W |-> t.W + 2,
     at |-> [b \in DOMAIN t.at |->
              [r \in 1..(t.H + 2) |->
                [c \in 1..(t.W + 2) |->
                    t.at[b][Clamp(r - 1, 1, t.H)][Clamp(c - 1, 1, t.W)]]]]]

\* t.flatten(-2, -1): row-major
Flatten(t) ==
    [b \in DOMAIN t.at |->
        [i \in 1..(t.H * t.W) |-> t.at[b][RowOf(i, t.W)][ColOf(i, t.W)]]]

\* the depth argument as a tensor
DepthTensor(a) ==
    [H |-> a.H, W |-> a.W,
     at |-> [b \in 1..a.batch_size |->
              [r \in 1..a.H |-> [c \in 1..a.W |-> SourceDepth(a, b, r, c)]]]]

\* torch.where(mask, depth, far): line 206
MaskedDepthAt(a, d, b, r, c) == IF SourceMask(a, b, r, c) THEN d ELSE Far

WhereMask(a, t) ==
    [H |-> t.H, W |-> t.W,
     at |-> [b \in DOMAIN t.at |->
              [r \in 1..t.H |->
                [c \in 1..t.W |-> MaskedDepthAt(a, t.at[b][r][c], b, r, c)]]]]

\* uv of the padded lattice, lines 186-192
PaddedUV(uv, width, height) ==
    [i \in DOMAIN uv |->
        <<RMul(RSub(uv[i][1], <<1, width + 2>>), <<width + 2, width>>),
          RMul(RSub(uv[i][2], <<1, width + 2>>), <<width + 2, width>>)>>]

PaddedUVOffset(uv, width, height, padding) ==
    [i \in DOMAIN uv |->
        LET r == RowOf(i, width + 2)
            c == ColOf(i, width + 2)
            u0 == uv[i][1]
            v0 == uv[i][2]
            v1 == IF r = 1 THEN RSub(v0, <<padding, height>>) ELSE v0
            v2 == IF r = height + 2 THEN RAdd(v1, <<padding, height>>) ELSE v1
            u1 == IF c = 1 THEN RSub(u0, <<padding, width>>) ELSE u0
            u2 == IF c = width + 2 THEN RAdd(u1, <<padding, width>>) ELSE u1
        IN <<u2, v2>>]

\* broadcasting of the (N, 2) uv against the (B, N') flattened depth inside unproject_cv
Broadcastable(n1, n2) == n1 = n2 \/ n1 = 1 \/ n2 = 1

\* transforms.unproject_cv: vertex i of batch element b from uv[i] and depth[b][i]
unproject_cv(uv, depth, extrinsics, intrinsics) ==
    [b \in DOMAIN depth |->
        [i \in DOMAIN uv |->
            [uv |-> uv[i], depth |-> depth[b][i],
             extrinsics |-> extrinsics, intrinsics |-> intrinsics]]]

----------------------------------------------------------------------------
(* rasterize_vertex_attr *)

ScreenOne == 2 * ZScale     \* screen depth 1.0

\* faulty variant of the remap: (depth >= 0) in place of (depth > 0)
DepthRemap_GeqZero(z) ==
    (z + ZScale) * (IF z >= 0 THEN 1 ELSE 0) + (IF z = 0 THEN 2 * ZScale ELSE 0)

\* line 97: depth = (depth * 0.5 + 0.5) * (depth > 0).float() + (depth == 0).float()
DepthRemap(z) ==
    (z + ZScale) * (IF z > 0 THEN 1 ELSE 0) + (IF z = 0 THEN ScreenOne ELSE 0)

\* What the rasterization service can deliver at one pixel: nothing (all of
\* rast_out and of the interpolated attributes zero), or a covered pixel with
\* a raw z in [-1, 1] and an interpolated, antialiased mask value.
NZ == 2 * ZScale + 1
MaskSamples == <<MaskOne, MaskThreshold, MaskThreshold + 1, 0>>
NOutcomes == 1 + NZ * Len(MaskSamples)

RasterOutcome(k) ==
    IF k = 0 THEN [tri |-> 0, z |-> 0, m |-> 0]
    ELSE [tri |-> 1, z |-> ((k - 1) % NZ) - ZScale, m |-> MaskSamples[((k - 1) \div NZ) + 1]]

\* interpolated value of one attribute channel at a covered pixel
ChannelSample(ch, o) ==
    CASE ch.kind = "mask" -> o.m
      [] ch.kind = "image" -> 1000 * ch.k + 7
      [] OTHER -> 500 * ch.k + 3

\* dr.rasterize and dr.interpolate (and dr.antialias): rows bottom-up, channels last
ServiceRaster(seed, batch, height, width, channels) ==
    [b \in 1..batch |->
        [r \in 1..height |->
            [c \in 1..width |->
                LET o == RasterOutcome((seed + ((b - 1) * height + (r - 1)) * width + c) % NOutcomes)
                IN [z |-> o.z,
                    tri |-> o.tri,
                    image |-> [j \in 1..Len(channels) |->
                                [ch |-> channels[j],
                                 val |-> IF o.tri = 0 THEN 0 ELSE ChannelSample(channels[j], o)]]]]]]

\* t.flip(1): row r of the result is row height + 1 - r of the service's raster
FlipRow(r, height) == height + 1 - r

\* lines 90-101
rasterize_vertex_attr(raw, batch, height, width, diff_attrs_set) ==
    [set |-> TRUE,
     image |-> [b \in 1..batch |-> [r \in 1..height |-> [c \in 1..width |->
                    raw[b][FlipRow(r, height)][c].image]]],
     depth |-> [b \in 1..batch |-> [r \in 1..height |-> [c \in 1..width |->
                    DepthRemap(raw[b][FlipRow(r, height)][c].z)]]],
     raw_z |-> [b \in 1..batch |-> [r \in 1..height |-> [c \in 1..width |->
                    raw[b][FlipRow(r, height)][c].z]]],
     raw_tri |-> [b \in 1..batch |-> [r \in 1..height |-> [c \in 1..width |->
                    raw[b][FlipRow(r, height)][c].tri]]],
     n_returned |-> IF diff_attrs_set THEN 3 ELSE 2]

----------------------------------------------------------------------------
(* warp_image_by_depth *)

\* lines 163-166
ResolveSize(a) ==
    [set |-> TRUE,
     width |-> IF a.width = 0 THEN a.W ELSE a.width,
     height |-> IF a.height = 0 THEN a.H ELSE a.height]

\* lines 167-168
ImageShapeOk(a) == a.has_image => (a.image_H = a.H /\ a.image_W = a.W)

\* lines 170-177
ResolveExtrinsics(e) == IF e = "None" THEN "eye(4)" ELSE e
ResolveIntrinsicsSrc(a) ==
    IF a.intrinsics_src = "None" THEN a.intrinsics_tgt ELSE a.intrinsics_src
\* faulty variant: the target intrinsics are not mirrored from the source
ResolveIntrinsicsTgt_NoMirror(a) == a.intrinsics_tgt

ResolveIntrinsicsTgt(a) ==
    IF a.intrinsics_tgt = "None" THEN ResolveIntrinsicsSrc(a) ELSE a.intrinsics_tgt

ResolveCameras(a) ==
    [set |-> TRUE,
     extrinsics_src |-> ResolveExtrinsics(a.extrinsics_src),
     extrinsics_tgt |-> ResolveExtrinsics(a.extrinsics_tgt),
     intrinsics_src |-> ResolveIntrinsicsSrc(a),
     intrinsics_tgt |-> ResolveIntrinsicsTgt(a),
     view_tgt |-> "None",
     perspective_tgt |-> "None"]

\* line 179
CameraParamsOk(c) ==
    /\ c.extrinsics_src # "None"
    /\ c.extrinsics_tgt # "None"
    /\ c.intrinsics_src # "None"
    /\ c.intrinsics_tgt # "None"

\* the image argument: the value at [b, :, r, c] is named by its pixel
ImageTensor(a) ==
    [H |-> a.image_H, W |-> a.image_W,
     at |-> [b \in 1..a.batch_size |->
              [r \in 1..a.image_H |-> [c \in 1..a.image_W |-> <<r, c>>]]]]

\* lines 184-196: the padded lattice
PaddedLattice(a, sz) ==
    LET m == image_mesh(sz.width + 2, sz.height + 2)
        uv == PaddedUV(m.uv, sz.width, sz.height)
        depth == PadReplicate(DepthTensor(a))
    IN [set |-> TRUE,
        n |-> m.n,
        uv |-> uv,
        uv_unproject |-> PaddedUVOffset(uv, sz.width, sz.height, a.padding),
        faces |-> m.faces,
        depth |-> depth,
        depth_n |-> depth.H * depth.W,
        image |-> IF a.has_image THEN PadReplicate(ImageTensor(a)) ELSE Unset]

\* lines 204-207: the plain lattice
PlainLattice(a) ==
    LET m == image_mesh(a.W, a.H)
        depth == IF a.has_mask THEN WhereMask(a, DepthTensor(a)) ELSE DepthTensor(a)
    IN [set |-> TRUE,
        n |-> m.n,
        uv |-> m.uv,
        uv_unproject |-> m.uv,
        faces |-> m.faces,
        depth |-> depth,
        depth_n |-> depth.H * depth.W,
        image |-> IF a.has_image THEN ImageTensor(a) ELSE Unset]

BuildLattice(a, sz) == IF a.padding > 0 THEN PaddedLattice(a, sz) ELSE PlainLattice(a)

\* faulty variant: the fixed topology whatever the batch size
TriangulateCall_AlwaysFixed(a, p) ==
    [set |-> TRUE, with_vertices |-> FALSE, vertices |-> <<>>,
     with_backslash |-> TRUE, backslash |-> a.backslash]

\* lines 215-219
TriangulateCall(a, p) ==
    IF a.batch_size = 1
    THEN [set |-> TRUE, with_vertices |-> TRUE, vertices |-> p.at[1],
          with_backslash |-> FALSE, backslash |-> FALSE]
    ELSE [set |-> TRUE, with_vertices |-> FALSE, vertices |-> <<>>,
          with_backslash |-> TRUE, backslash |-> a.backslash]

\* lines 222-234: the blocks concatenated along the channel axis, in order
ImageChannels(a) == [k \in 1..a.C |-> ImageCh(k)]

AttrBlocks(a, l) ==
    (IF a.has_image
     THEN <<[name |-> "image", rows |-> l.image.H * l.image.W, channels |-> ImageChannels(a)]>>
          \o (IF a.return_dr
              THEN <<[name |-> "uv", rows |-> l.n, channels |-> <<UCh, VCh>>]>>
              ELSE <<>>)
     ELSE <<[name |-> "uv", rows |-> l.n, channels |-> <<UCh, VCh>>]>>)
    \o (IF a.has_mask
        THEN <<[name |-> "mask", rows |-> a.H * a.W, channels |-> <<MaskCh>>]>>
        ELSE <<>>)

\* lines 222, 226, 231: 0-based channel indices, <<>> for None
DiffAttrs(a) ==
    IF ~a.return_dr THEN <<>>
    ELSE IF a.has_image THEN <<a.C, a.C + 1>> ELSE <<0, 1>>

RECURSIVE ConcatChannels(_)
ConcatChannels(blocks) ==
    IF blocks = <<>> THEN <<>> ELSE Head(blocks).channels \o ConcatChannels(Tail(blocks))

\* torch.cat(..., dim=-1) needs the same number of rows in every block
CatOk(blocks) == \A i, j \in 1..Len(blocks) : blocks[i].rows = blocks[j].rows

BuildAttrs(a, l) ==
    LET blocks == AttrBlocks(a, l)
    IN [set |-> TRUE,
        blocks |-> blocks,
        channels |-> ConcatChannels(blocks),
        rows |-> blocks[1].rows,
        diff_attrs |-> DiffAttrs(a),
        diff_attrs_set |-> a.return_dr]

\* faulty variant: >= 0.9999 in place of > 0.9999
OutputMaskAt_Geq(a, screen_depth, channels) ==
    /\ screen_depth < 2 * ZScale
    /\ a.has_mask => channels[Len(channels)].val >= MaskThreshold

\* line 252 and 256
OutputMaskAt(a, screen_depth, channels) ==
    /\ screen_depth < ScreenOne
    /\ a.has_mask => channels[Len(channels)].val > MaskThreshold

\* line 255
StripMaskChannel(a, channels) ==
    IF a.has_mask THEN SubSeq(channels, 1, Len(channels) - 1) ELSE channels

\* faulty variant: one helper channel stripped in place of the two uv channels
StripUVChannels_OffByOne(a, channels) ==
    IF a.return_dr /\ a.has_image THEN SubSeq(channels, 1, Len(channels) - 1) ELSE channels

\* lines 258-259
StripUVChannels(a, channels) ==
    IF a.return_dr /\ a.has_image THEN SubSeq(channels, 1, Len(channels) - 2) ELSE channels

\* transforms.linearize_depth: inverse of the perspective depth encoding, in tenths
linearize_depth(screen_depth) ==
    (Near * Far * ScreenOne) \div (Far * ScreenOne - screen_depth * (Far - Near))

\* x * mask
TimesMask(x, m) == IF m THEN x ELSE 0

\* line 261
OutputDepthAt(screen_depth, m) == TimesMask(linearize_depth(screen_depth), m)

\* faulty variant: the image is returned without the multiplication by the mask
OutputImageAt_Unmasked(channels, m) == channels

\* line 262
OutputImageAt(channels, m) ==
    [j \in 1..Len(channels) |-> [ch |-> channels[j].ch, val |-> TimesMask(channels[j].val, m)]]

\* lines 248-266
Composite(a, sz, rs) ==
    LET mask == [b \in 1..a.batch_size |-> [r \in 1..sz.height |-> [c \in 1..sz.width |->
                    OutputMaskAt(a, rs.depth[b][r][c], rs.image[b][r][c])]]]
    IN [set |-> TRUE,
        image |-> [b \in 1..a.batch_size |-> [r \in 1..sz.height |-> [c \in 1..sz.width |->
                    OutputImageAt(StripUVChannels(a, StripMaskChannel(a, rs.image[b][r][c])),
                                  mask[b][r][c])]]],
        depth |-> [b \in 1..a.batch_size |-> [r \in 1..sz.height |-> [c \in 1..sz.width |->
                    OutputDepthAt(rs.depth[b][r][c], mask[b][r][c])]]],
        mask |-> mask,
        n_returned |-> IF a.return_dr THEN 4 ELSE 3]

----------------------------------------------------------------------------
(* The calls the model makes *)

MkCall(B, H, W, hasImage, C, imH, imW, hasMask, pat, width, height, es, et, is, it, bs, pad, dr) ==
    [batch_size |-> B, H |-> H, W |-> W,
     has_image |-> hasImage, C |-> C, image_H |-> imH, image_W |-> imW,
     has_mask |-> hasMask, mask_pattern |-> pat,
     width |-> width, height |-> height,        \* 0 stands for None
     extrinsics_src |-> es, extrinsics_tgt |-> et,
     intrinsics_src |-> is, intrinsics_tgt |-> it,
     backslash |-> bs, padding |-> pad, return_dr |-> dr]

\* image: None, or C channels of the depth's size
ImageChoices == {<<FALSE, 1>>} \cup {<<TRUE, k>> : k \in 1..MaxC}
\* mask: None, or one of the patterns
MaskChoices == {<<FALSE, "all">>} \cup {<<TRUE, p>> : p \in MaskPatterns}

\* every combination of batch size, depth size, image, mask, return_dr and padding
DataCalls ==
    {MkCall(B, H, W, im[1], im[2], H, W, mk[1], mk[2], 0, 0,
            "None", "None", "K_src", "None", FALSE, pad, dr) :
        B \in 1..MaxBatch, H \in 1..MaxDim, W \in 1..MaxDim,
        im \in ImageChoices, mk \in MaskChoices, pad \in 0..MaxPad, dr \in BOOLEAN}

\* every combination of depth size, requested size, padding, image (of the
\* depth's size or one row taller) and mask
ShapeCalls ==
    {MkCall(1, H, W, im[1], 1, H + im[2], W, mk[1], mk[2], width, height,
            "None", "None", "K_src", "None", FALSE, pad, FALSE) :
        H \in 1..MaxDim, W \in 1..MaxDim, width \in 0..MaxDim, height \in 0..MaxDim,
        im \in {<<FALSE, 0>>, <<TRUE, 0>>, <<TRUE, 1>>},
        mk \in {<<FALSE, "all">>, <<TRUE, "even">>}, pad \in 0..MaxPad}

\* every combination of supplied camera parameters, batch size and backslash
CameraCalls ==
    {MkCall(B, 1, 1, FALSE, 1, 1, 1, FALSE, "all", 0, 0,
            es, et, is, it, bs, 0, FALSE) :
        B \in 1..MaxBatch, es \in {"None", "E_src"}, et \in {"None", "E_tgt"},
        is \in {"None", "K_src"}, it \in {"None", "K_tgt"}, bs \in BOOLEAN}

Calls == DataCalls \cup ShapeCalls \cup CameraCalls

----------------------------------------------------------------------------
(* Actions of warp_image_by_depth *)

WarpInit ==
    /\ pc = "idle"
    /\ args = Unset
    /\ err = ""
    /\ calls = <<>>
    /\ size = Unset
    /\ cam = Unset
    /\ lat = Unset
    /\ pts = Unset
    /\ tri = Unset
    /\ attr = Unset
    /\ rast = Unset
    /\ out = Unset

Call ==
    /\ pc = "idle"
    /\ \E a \in Calls : args' = a
    /\ pc' = "entered"
    /\ UNCHANGED <<err, calls, size, cam, lat, pts, tri, attr, rast, out>>

\* line 168: the image's size differs from the depth's
FailImageShape ==
    /\ pc = "entered"
    /\ ~ImageShapeOk(args)
    /\ pc' = "failed"
    /\ err' = "image_shape"
    /\ UNCHANGED <<args, calls, size, cam, lat, pts, tri, attr, rast, out>>

\* line 179: a camera parameter is still None
FailCameraParams ==
    /\ pc = "entered"
    /\ ImageShapeOk(args)
    /\ ~CameraParamsOk(ResolveCameras(args))
    /\ pc' = "failed"
    /\ err' = "camera_params"
    /\ UNCHANGED <<args, calls, size, cam, lat, pts, tri, attr, rast, out>>

\* lines 160-179
ResolveArgs ==
    /\ pc = "entered"
    /\ ImageShapeOk(args)
    /\ CameraParamsOk(ResolveCameras(args))
    /\ size' = ResolveSize(args)
    /\ cam' = ResolveCameras(args)
    /\ pc' = "resolved"
    /\ UNCHANGED <<args, err, calls, lat, pts, tri, attr, rast, out>>

\* lines 181-182
BuildTargetCamera ==
    /\ pc = "resolved"
    /\ cam' = [cam EXCEPT !.view_tgt = <<"extrinsics_to_view", cam.extrinsics_tgt>>,
                          !.perspective_tgt = <<"intrinsics_to_perspective", cam.intrinsics_tgt>>]
    /\ calls' = calls \o <<"extrinsics_to_view", "intrinsics_to_perspective">>
    /\ pc' = "camera"
    /\ UNCHANGED <<args, err, size, lat, pts, tri, attr, rast, out>>

\* lines 184-213
Unproject ==
    /\ pc = "camera"
    /\ LET l == BuildLattice(args, size)
       IN /\ Broadcastable(l.n, l.depth_n)
          /\ lat' = l
          /\ pts' = [set |-> TRUE,
                      at |-> unproject_cv(l.uv_unproject, Flatten(l.depth),
                                          cam.extrinsics_src, cam.intrinsics_src)]
    /\ calls' = calls \o <<"image_mesh", "unproject_cv">>
    /\ pc' = "unprojected"
    /\ UNCHANGED <<args, err, size, cam, tri, attr, rast, out>>

\* lines 197-202: the lattice and the depth differ in their number of samples
FailUnproject ==
    /\ pc = "camera"
    /\ LET l == BuildLattice(args, size)
       IN /\ ~Broadcastable(l.n, l.depth_n)
          /\ lat' = l
    /\ calls' = calls \o <<"image_mesh", "unproject_cv">>
    /\ pc' = "failed"
    /\ err' = "unproject_shape"
    /\ UNCHANGED <<args, size, cam, pts, tri, attr, rast, out>>

\* lines 215-219
Triangulate ==
    /\ pc = "unprojected"
    /\ tri' = TriangulateCall(args, pts)
    /\ calls' = Append(calls, "triangulate")
    /\ pc' = "triangulated"
    /\ UNCHANGED <<args, err, size, cam, lat, pts, attr, rast, out>>

\* lines 221-234
BuildAttr ==
    /\ pc = "triangulated"
    /\ CatOk(AttrBlocks(args, lat))
    /\ attr' = BuildAttrs(args, lat)
    /\ pc' = "attrs"
    /\ UNCHANGED <<args, err, calls, size, cam, lat, pts, tri, rast, out>>

\* lines 227 and 234: torch.cat of blocks with different numbers of rows
FailAttr ==
    /\ pc = "triangulated"
    /\ ~CatOk(AttrBlocks(args, lat))
    /\ attr' = BuildAttrs(args, lat)
    /\ pc' = "failed"
    /\ err' = "attr_shape"
    /\ UNCHANGED <<args, calls, size, cam, lat, pts, tri, rast, out>>

\* lines 236-247 and rasterize_vertex_attr, lines 68-101
Rasterize ==
    /\ pc = "attrs"
    /\ \E seed \in 0..(NOutcomes - 1) :
          rast' = rasterize_vertex_attr(
                      ServiceRaster(seed, args.batch_size, size.height, size.width, attr.channels),
                      args.batch_size, size.height, size.width, attr.diff_attrs_set)
    /\ calls' = Append(calls, "rasterize_vertex_attr")
    /\ pc' = "rasterized"
    /\ UNCHANGED <<args, err, size, cam, lat, pts, tri, attr, out>>

\* lines 248-266
CompositeAndReturn ==
    /\ pc = "rasterized"
    /\ out' = Composite(args, size, rast)
    /\ calls' = Append(calls, "linearize_depth")
    /\ pc' = "done"
    /\ UNCHANGED <<args, err, size, cam, lat, pts, tri, attr, rast>>

----------------------------------------------------------------------------
(* read_obj.  A line is the token list line.strip().split() yields; a      *)
(* token is its sequence of characters.                                    *)

Digits == <<"0", "1", "2", "3", "4", "5", "6", "7", "8", "9">>
IsDigit(ch) == \E d \in 1..Len(Digits) : Digits[d] = ch
DigitValue(ch) == (CHOOSE d \in 1..Len(Digits) : Digits[d] = ch) - 1

\* int(e) and float(e) accept the digit strings of this alphabet
IsNumber(tok) == tok # <<>> /\ \A j \in 1..Len(tok) : IsDigit(tok[j])

RECURSIVE NumberValue(_)
NumberValue(tok) ==
    IF tok = <<>> THEN 0
    ELSE 10 * NumberValue(SubSeq(tok, 1, Len(tok) - 1)) + DigitValue(tok[Len(tok)])

\* e.split('/')
RECURSIVE SplitSlash(_)
SplitSlash(tok) ==
    IF \A j \in 1..Len(tok) : tok[j] # "/" THEN <<tok>>
    ELSE LET j == CHOOSE k \in 1..Len(tok) :
                    tok[k] = "/" /\ \A m \in 1..(k - 1) : tok[m] # "/"
         IN <<SubSeq(tok, 1, j - 1)>> \o SplitSlash(SubSeq(tok, j + 1, Len(tok)))

\* line 44: pad0 = lambda l: l + [0] * (3 - len(l))
pad0(l) == l \o [j \in 1..(IF Len(l) < 3 THEN 3 - Len(l) ELSE 0) |-> 0]

\* line 61: int(i) if i else 0
CornerIndex(part) == IF part = <<>> THEN 0 ELSE NumberValue(part)
CornerOk(tok) == \A part \in {SplitSlash(tok)[j] : j \in 1..Len(SplitSlash(tok))} :
                    part = <<>> \/ IsNumber(part)
Corner(tok) == pad0([j \in 1..Len(SplitSlash(tok)) |-> CornerIndex(SplitSlash(tok)[j])])

Floats(sq) == [j \in 1..(Len(sq) - 1) |-> NumberValue(sq[j + 1])]
FloatsOk(sq) == \A j \in 2..Len(sq) : IsNumber(sq[j])

dV == <<"v">>
dVT == <<"v", "t">>
dVN == <<"v", "n">>
dVP == <<"v", "p">>
dF == <<"f">>
dUSEMTL == <<"u", "s", "e", "m", "t", "l">>
dO == <<"o">>
dS == <<"s">>
dMTLLIB == <<"m", "t", "l", "l", "i", "b">>

\* lines 34-42
EmptyObj ==
    [mtllib |-> <<>>, v |-> <<>>, vt |-> <<>>, vn |-> <<>>, vp |-> <<>>,
     f |-> <<>>, o |-> <<>>, s |-> <<>>, usemtl |-> <<>>]

Ok(o) == [raised |-> FALSE, exc |-> "", obj |-> o]
Raise(o, e) == [raised |-> TRUE, exc |-> e, obj |-> o]

\* faulty variant: an unknown keyword raises whatever ignore_unknown is
UnknownKeyword_AlwaysRaise(o, ignore_unknown) == Raise(o, "Exception")

\* lines 75-77
UnknownKeyword(o, ignore_unknown) ==
    IF ~ignore_unknown THEN Raise(o, "Exception") ELSE Ok(o)

\* lines 47-77: one iteration of the loop
ParseLine(o, sq, ignore_unknown) ==
    IF sq = <<>> THEN Raise(o, "IndexError")
    ELSE IF sq[1] = dV THEN
        IF ~(4 <= Len(sq) /\ Len(sq) <= 5) THEN Raise(o, "AssertionError")
        ELSE IF ~FloatsOk(sq) THEN Raise(o, "ValueError")
        ELSE Ok([o EXCEPT !.v = Append(@, Floats(sq))])
    ELSE IF sq[1] = dVT THEN
        IF ~(2 <= Len(sq) /\ Len(sq) <= 4) THEN Raise(o, "AssertionError")
        ELSE IF ~FloatsOk(sq) THEN Raise(o, "ValueError")
        ELSE Ok([o EXCEPT !.vt = Append(@, Floats(sq))])
    ELSE IF sq[1] = dVN THEN
        IF Len(sq) # 4 THEN Raise(o, "AssertionError")
        ELSE IF ~FloatsOk(sq) THEN Raise(o, "ValueError")
        ELSE Ok([o EXCEPT !.vn = Append(@, Floats(sq))])
    ELSE IF sq[1] = dVP THEN
        IF ~(2 <= Len(sq) /\ Len(sq) <= 4) THEN Raise(o, "AssertionError")
        ELSE IF ~FloatsOk(sq) THEN Raise(o, "ValueError")
        ELSE Ok([o EXCEPT !.vp = Append(@, Floats(sq))])
    ELSE IF sq[1] = dF THEN
        IF ~(\A j \in 2..Len(sq) : CornerOk(sq[j])) THEN Raise(o, "ValueError")
        ELSE Ok([o EXCEPT !.f = Append(@, [j \in 1..(Len(sq) - 1) |-> Corner(sq[j + 1])])])
    ELSE IF sq[1] = dUSEMTL THEN
        IF Len(sq) # 2 THEN Raise(o, "AssertionError")
        ELSE Ok([o EXCEPT !.usemtl = Append(@, [name |-> sq[2], f |-> Len(o.f)])])
    ELSE IF sq[1] = dO THEN
        IF Len(sq) # 2 THEN Raise(o, "AssertionError")
        ELSE Ok([o EXCEPT !.o = Append(@, [name |-> sq[2], f |-> Len(o.f)])])
    ELSE IF sq[1] = dS THEN
        IF Len(sq) < 2 THEN Raise(o, "IndexError")
        ELSE Ok([o EXCEPT !.s = Append(@, [name |-> sq[2], f |-> Len(o.f)])])
    ELSE IF sq[1] = dMTLLIB THEN
        IF Len(sq) # 2 THEN Raise(o, "AssertionError")
        ELSE Ok([o EXCEPT !.mtllib = Append(@, sq[2])])
    ELSE IF sq[1][1] = "#" THEN Ok(o)
    ELSE UnknownKeyword(o, ignore_unknown)

\* the lines the model feeds to read_obj
ObjLines ==
    {<<dV, <<"1">>, <<"2">>, <<"1", "0">>>>,
     <<dV, <<"1">>>>,
     <<dVT, <<"1">>, <<"2">>>>,
     <<dVN, <<"0">>, <<"1">>, <<"0">>>>,
     <<dVP, <<"2">>>>,
     <<dF, <<"1", "/", "2">>, <<"2", "/", "/", "1">>, <<"3">>>>,
     <<dF, <<"a">>>>,
     <<dUSEMTL, <<"a">>>>,
     <<dO, <<"a">>>>,
     <<dS, <<"1">>>>,
     <<dS>>,
     <<dMTLLIB, <<"a">>>>,
     <<<<"#">>, <<"a">>>>,
     <<<<"#", "a">>>>,
     <<<<"g">>, <<"a">>>>,
     <<<<"v", "x">>, <<"1">>>>,
     <<>>}

RECURSIVE SeqsUpTo(_, _)
SeqsUpTo(S, n) ==
    IF n = 0 THEN {<<>>}
    ELSE LET shorter == SeqsUpTo(S, n - 1)
         IN shorter \cup {Append(q, x) : q \in shorter, x \in S}

\* line 5, lines 29-42
ObjCall ==
    /\ obj_pc = "idle"
    /\ \E ls \in SeqsUpTo(ObjLines, MaxLines), ign \in BOOLEAN :
          obj_in' = [set |-> TRUE, lines |-> ls, ignore_unknown |-> ign]
    /\ obj' = Ok(EmptyObj)
    /\ obj_i' = 0
    /\ obj_pc' = "loop"

\* lines 46-77: an iteration that does not raise
ObjLine ==
    /\ obj_pc = "loop"
    /\ obj_i < Len(obj_in.lines)
    /\ LET r == ParseLine(obj.obj, obj_in.lines[obj_i + 1], obj_in.ignore_unknown)
       IN /\ ~r.raised
          /\ obj' = r
    /\ obj_i' = obj_i + 1
    /\ UNCHANGED <<obj_pc, obj_in>>

\* lines 46-77: an iteration that raises
ObjRaise ==
    /\ obj_pc = "loop"
    /\ obj_i < Len(obj_in.lines)
    /\ LET r == ParseLine(obj.obj, obj_in.lines[obj_i + 1], obj_in.ignore_unknown)
       IN /\ r.raised
          /\ obj' = r
    /\ obj_pc' = "raised"
    /\ UNCHANGED <<obj_i, obj_in>>

\* lines 79-89
ObjReturn ==
    /\ obj_pc = "loop"
    /\ obj_i = Len(obj_in.lines)
    /\ obj_pc' = "returned"
    /\ UNCHANGED <<obj_i, obj_in, obj>>

ObjIdle ==
    /\ obj_pc = "idle"
    /\ obj_in = Unset
    /\ obj_i = 0
    /\ obj = Unset

Init == WarpInit /\ ObjIdle

Next ==
    \/ (Call /\ UNCHANGED objVars)
    \/ (FailImageShape /\ UNCHANGED objVars)
    \/ (FailCameraParams /\ UNCHANGED objVars)
    \/ (ResolveArgs /\ UNCHANGED objVars)
    \/ (BuildTargetCamera /\ UNCHANGED objVars)
    \/ (Unproject /\ UNCHANGED objVars)
    \/ (FailUnproject /\ UNCHANGED objVars)
    \/ (Triangulate /\ UNCHANGED objVars)
    \/ (BuildAttr /\ UNCHANGED objVars)
    \/ (FailAttr /\ UNCHANGED objVars)
    \/ (Rasterize /\ UNCHANGED objVars)
    \/ (CompositeAndReturn /\ UNCHANGED objVars)

Spec == Init /\ [][Next]_vars

NextObj ==
    \/ (ObjCall /\ UNCHANGED warpVars)
    \/ (ObjLine /\ UNCHANGED warpVars)
    \/ (ObjRaise /\ UNCHANGED warpVars)
    \/ (ObjReturn /\ UNCHANGED warpVars)

SpecObj == Init /\ [][NextObj]_vars

----------------------------------------------------------------------------
(* Properties *)

OutPixels ==
    {<<b, r, c>> : b \in 1..args.batch_size, r \in 1..size.height, c \in 1..size.width}

Returned == pc = "done"
Rasterized == pc \in {"rasterized", "done"}

\* the rasterized value of the channel that carries the source mask
RastMaskValue(chs) == chs[CHOOSE j \in 1..Len(chs) : chs[j].ch = MaskCh].val

\* C1: in every call that returns, a pixel whose returned validity mask is
\* false has every returned image channel zero and returned linear depth zero.
C1_InvalidPixelsZero ==
    Returned =>
        \A p \in OutPixels :
            ~out.mask[p[1]][p[2]][p[3]] =>
                /\ out.depth[p[1]][p[2]][p[3]] = 0
                /\ \A j \in 1..Len(out.image[p[1]][p[2]][p[3]]) :
                        out.image[p[1]][p[2]][p[3]][j].val = 0

\* a returned batched call with image, mask and derivatives where an invalid
\* pixel was rasterized with non-zero colour and non-zero linear depth
C1_Witness ==
    /\ Returned
    /\ args.batch_size > 1 /\ args.has_image /\ args.has_mask /\ args.return_dr
    /\ \E p \in OutPixels :
          /\ ~out.mask[p[1]][p[2]][p[3]]
          /\ rast.image[p[1]][p[2]][p[3]][1].val # 0
          /\ linearize_depth(rast.depth[p[1]][p[2]][p[3]]) # 0

\* C2 as stated: the depth raster lies in [0,1], an empty pixel is 1.0, and
\* every pixel with raw clip z <= 0 is 0.0.
C2_Original ==
    Rasterized =>
        \A p \in OutPixels :
            LET d == rast.depth[p[1]][p[2]][p[3]]
                z == rast.raw_z[p[1]][p[2]][p[3]]
            IN /\ 0 <= d /\ d <= ScreenOne
               /\ rast.raw_tri[p[1]][p[2]][p[3]] = 0 => d = ScreenOne
               /\ z <= 0 => d = 0

\* C2 amended: the depth raster lies in [0,1], an empty pixel is 1.0, every
\* pixel with raw clip z < 0 is 0.0 and every pixel with raw clip z = 0,
\* covered or empty, is 1.0.
C2_DepthRemap ==
    Rasterized =>
        \A p \in OutPixels :
            LET d == rast.depth[p[1]][p[2]][p[3]]
                z == rast.raw_z[p[1]][p[2]][p[3]]
            IN /\ 0 <= d /\ d <= ScreenOne
               /\ rast.raw_tri[p[1]][p[2]][p[3]] = 0 => d = ScreenOne
               /\ z < 0 => d = 0
               /\ z = 0 => d = ScreenOne
               /\ z > 0 => 2 * d = ScreenOne + 2 * z

\* a raster with a covered pixel at raw z = 0, one at z < 0 and an empty one
C2_Witness ==
    /\ Rasterized
    /\ \E p \in OutPixels :
          rast.raw_z[p[1]][p[2]][p[3]] = 0 /\ rast.raw_tri[p[1]][p[2]][p[3]] = 1
    /\ \E p \in OutPixels : rast.raw_z[p[1]][p[2]][p[3]] < 0
    /\ \E p \in OutPixels : rast.raw_tri[p[1]][p[2]][p[3]] = 0

\* C3: the returned mask is true exactly where the raster depth is below 1.0
\* and, with a source mask, the rasterized mask channel is above 0.9999
\* (0.9999 itself is invalid, 0.99991 valid); without a source mask it is
\* just depth < 1.0.
C3_MaskRule ==
    Returned =>
        \A p \in OutPixels :
            LET d == rast.depth[p[1]][p[2]][p[3]]
                chs == rast.image[p[1]][p[2]][p[3]]
                m == out.mask[p[1]][p[2]][p[3]]
            IN IF args.has_mask
               THEN /\ m <=> (d < ScreenOne /\ RastMaskValue(chs) > 99990)
                    /\ RastMaskValue(chs) = 99990 => ~m
                    /\ (RastMaskValue(chs) = 99991 /\ d < ScreenOne) => m
               ELSE m <=> (d < ScreenOne)

\* a returned call with a source mask where one pixel in front of the far
\* plane carries 0.9999 in the mask channel and another carries 0.99991
C3_Witness ==
    /\ Returned
    /\ args.has_mask
    /\ \E p, q \in OutPixels :
          /\ rast.depth[p[1]][p[2]][p[3]] < ScreenOne
          /\ RastMaskValue(rast.image[p[1]][p[2]][p[3]]) = 99990
          /\ ~out.mask[p[1]][p[2]][p[3]]
          /\ rast.depth[q[1]][q[2]][q[3]] < ScreenOne
          /\ RastMaskValue(rast.image[q[1]][q[2]][q[3]]) = 99991
          /\ out.mask[q[1]][q[2]][q[3]]

\* the pixel of the caller's depth map that sample (r, c) of the local depth
\* tensor stands for: itself, or with padding the pixel it replicates
SourceRow(r) == IF args.padding > 0 THEN Clamp(r - 1, 1, args.H) ELSE r
SourceCol(c) == IF args.padding > 0 THEN Clamp(c - 1, 1, args.W) ELSE c

\* C4 as stated: with a source mask, for every padding, every lattice vertex
\* is kept, a vertex of an invalid source pixel is unprojected with depth far
\* and a vertex of a valid one with its own depth.
C4_Original ==
    (pts # Unset /\ args.has_mask) =>
        \A b \in 1..args.batch_size :
            /\ DOMAIN pts.at[b] = 1..lat.n
            /\ \A i \in 1..lat.n :
                 LET r == SourceRow(RowOf(i, lat.depth.W))
                     c == SourceCol(ColOf(i, lat.depth.W))
                 IN pts.at[b][i].depth =
                        IF SourceMask(args, b, r, c) THEN SourceDepth(args, b, r, c) ELSE Far

\* C5: with neither intrinsics supplied the call fails before any collaborator
\* is called and returns nothing; with one side supplied the other side takes
\* its value and the call does not fail for missing camera parameters;
\* missing extrinsics become the identity and never cause that failure.
C5_CameraDefaults ==
    pc # "idle" =>
        /\ (args.intrinsics_src = "None" /\ args.intrinsics_tgt = "None") =>
                /\ pc \in {"entered", "failed"}
                /\ calls = <<>>
                /\ cam = Unset /\ lat = Unset /\ pts = Unset /\ tri = Unset
                /\ rast = Unset /\ out = Unset
        /\ err = "camera_params" =>
                /\ args.intrinsics_src = "None" /\ args.intrinsics_tgt = "None"
                /\ calls = <<>>
                /\ out = Unset
        /\ cam # Unset =>
                /\ args.intrinsics_src = "None" =>
                        cam.intrinsics_src = args.intrinsics_tgt /\ cam.intrinsics_tgt = args.intrinsics_tgt
                /\ args.intrinsics_tgt = "None" =>
                        cam.intrinsics_src = args.intrinsics_src /\ cam.intrinsics_tgt = args.intrinsics_src
                /\ args.intrinsics_src # "None" => cam.intrinsics_src = args.intrinsics_src
                /\ args.intrinsics_tgt # "None" => cam.intrinsics_tgt = args.intrinsics_tgt
                /\ args.extrinsics_src = "None" => cam.extrinsics_src = "eye(4)"
                /\ args.extrinsics_tgt = "None" => cam.extrinsics_tgt = "eye(4)"
        /\ (pc = "entered" /\ ImageShapeOk(args)
              /\ (args.intrinsics_src # "None" \/ args.intrinsics_tgt # "None")) =>
                ~ENABLED FailCameraParams

\* the call failed on its camera parameters, no extrinsics having been given
C5_Witness ==
    /\ pc = "failed"
    /\ err = "camera_params"
    /\ args.extrinsics_src = "None" /\ args.extrinsics_tgt = "None"

\* C8: the triangulation mode depends on the batch size alone: batch size 1
\* passes the vertices of the one sample and no backslash flag, every other
\* batch size passes the backslash flag and no vertices.
C8_TriangulationMode ==
    tri # Unset =>
        IF args.batch_size = 1
        THEN tri.with_vertices /\ tri.vertices = pts.at[1] /\ ~tri.with_backslash
        ELSE ~tri.with_vertices /\ tri.with_backslash /\ tri.backslash = args.backslash

\* a batched call with backslash set has called triangulate
C8_Witness ==
    /\ tri # Unset
    /\ args.batch_size > 1
    /\ args.backslash

\* C9: with an image of C channels, the attribute layout is the image
\* channels, then uv (only with return_dr), then the mask channel (only with
\* a mask); diff_attrs index the two uv channels; the returned image is the C
\* image channels in order; the thresholded channel is the mask channel.
C9_ChannelLayout ==
    (attr # Unset /\ args.has_image) =>
        /\ attr.channels =
              [k \in 1..args.C |-> ImageCh(k)]
              \o (IF args.return_dr THEN <<UCh, VCh>> ELSE <<>>)
              \o (IF args.has_mask THEN <<MaskCh>> ELSE <<>>)
        /\ args.return_dr =>
              /\ Len(attr.diff_attrs) = 2
              /\ attr.channels[attr.diff_attrs[1] + 1] = UCh
              /\ attr.channels[attr.diff_attrs[2] + 1] = VCh
        /\ ~args.return_dr => attr.diff_attrs = <<>>
        /\ Returned =>
              \A p \in OutPixels :
                 /\ [j \in 1..Len(out.image[p[1]][p[2]][p[3]]) |-> out.image[p[1]][p[2]][p[3]][j].ch]
                        = [k \in 1..args.C |-> ImageCh(k)]
                 /\ out.mask[p[1]][p[2]][p[3]] =>
                        \A k \in 1..args.C :
                            out.image[p[1]][p[2]][p[3]][k].val = rast.image[p[1]][p[2]][p[3]][k].val
                 /\ (args.has_mask /\ out.mask[p[1]][p[2]][p[3]]) =>
                        RastMaskValue(rast.image[p[1]][p[2]][p[3]]) > MaskThreshold

\* a returned call with a two-channel image, a mask and derivatives, with a valid pixel
C9_Witness ==
    /\ Returned
    /\ args.has_image /\ args.C > 1 /\ args.has_mask /\ args.return_dr
    /\ \E p \in OutPixels : out.mask[p[1]][p[2]][p[3]]

\* C10 as stated: for every depth size, requested size, padding, image and
\* mask, the lattice has as many vertices as depth samples are unprojected and
\* as every concatenated attribute block has rows, and the call reaches
\* rasterization.
C10_Original ==
    /\ lat # Unset => lat.n = lat.depth_n
    /\ attr # Unset => \A j \in 1..Len(attr.blocks) : attr.blocks[j].rows = lat.n
    /\ err \notin {"unproject_shape", "attr_shape"}

KnownDirectives == {dV, dVT, dVN, dVP, dF, dUSEMTL, dO, dS, dMTLLIB}

\* a line whose directive is none of the nine and that is not a comment
IsUnknownLine(sq) == sq # <<>> /\ sq[1] \notin KnownDirectives /\ sq[1][1] # "#"

RECURSIVE WithoutUnknown(_)
WithoutUnknown(ls) ==
    IF ls = <<>> THEN <<>>
    ELSE IF IsUnknownLine(Head(ls)) THEN WithoutUnknown(Tail(ls))
    ELSE <<Head(ls)>> \o WithoutUnknown(Tail(ls))

\* read_obj run to its end on the lines ls
RECURSIVE ReadFrom(_, _, _)
ReadFrom(o, ls, ignore_unknown) ==
    IF ls = <<>> THEN Ok(o)
    ELSE LET r == ParseLine(o, Head(ls), ignore_unknown)
         IN IF r.raised THEN r ELSE ReadFrom(r.obj, Tail(ls), ignore_unknown)

ObjEnded == obj_pc \in {"returned", "raised"}
HasUnknownLine == \E j \in 1..Len(obj_in.lines) : IsUnknownLine(obj_in.lines[j])

\* C7: with ignore_unknown = False a line with an unknown directive makes
\* read_obj raise and return nothing; with ignore_unknown = True such lines
\* are skipped and the result is that of the same lines without them, the
\* recognised entries in their order.
C7_UnknownDirectives ==
    ObjEnded =>
        /\ (~obj_in.ignore_unknown /\ HasUnknownLine) => obj_pc = "raised"
        /\ obj_in.ignore_unknown =>
              LET ref == ReadFrom(EmptyObj, WithoutUnknown(obj_in.lines), TRUE)
              IN /\ (obj_pc = "raised") <=> ref.raised
                 /\ obj_pc = "returned" => obj.obj = ref.obj

\* read_obj returned with ignore_unknown = True from lines holding an unknown
\* directive, a face and a usemtl
C7_Witness ==
    /\ obj_pc = "returned"
    /\ obj_in.ignore_unknown
    /\ HasUnknownLine
    /\ Len(obj.obj.f) > 0
    /\ Len(obj.obj.usemtl) > 0
====
